---- MODULE Spec2Model ----
(***************************************************************************)
(* Model of revcontent_campaigns.py: a linear procedure that reads its     *)
(* arguments and environment, computes one desired state, resolves a       *)
(* bearer token and issues one toggle POST per campaign id.                *)
(*                                                                         *)
(* Strings that the program parses (CAMPAIGN_IDS) are sequences of         *)
(* one-character strings; opaque strings (tokens, ids of clients) are      *)
(* TLA+ strings.  The network log `calls` records every requests.post the  *)
(* program performs, together with the answer it got.                      *)
(***************************************************************************)
EXTENDS Integers, Sequences, FiniteSets, TLC

VARIABLES
    pc,          \* position in main(): "start", "get_access_token", "loop", "exited"
                 \* (or "resolve_enabled" / "returned" in the function harness)
    args,        \* argparse namespace: [enabled, dry_run]
    environ,     \* os.environ: a function from the names that are set to their values
    clock,       \* hour of now_local inside resolve_enabled (function harness only)
    campaigns,   \* main's local `campaigns`
    enabled,     \* main's local `enabled`
    token,       \* main's local `token`
    desired,     \* main's local `desired`
    idx,         \* position of the for loop of main in `campaigns`
    calls,       \* every requests.post performed so far, in order
    exit_code    \* exit status of the process once pc = "exited"

vars == <<pc, args, environ, clock, campaigns, enabled, token, desired, idx, calls, exit_code>>

-----------------------------------------------------------------------------
(* Bounds and input alphabets *)

MaxRawLen == 3

Chars == {"1", "2", ",", " ", "x"}
Digits == {"1", "2"}

RawStrings == UNION {[1..n -> Chars] : n \in 0..MaxRawLen}

Hours == 0..23
Modes == {"auto", "on", "off"}

None == "None"
NoHour == -1
NoExit == -1
EmptyDict == [k \in {} |-> None]

-----------------------------------------------------------------------------
(* Program constants *)

API_URL == "API_URL"
TOKEN_URL == "TOKEN_URL"
DEFAULT_CAMPAIGNS == <<2453224, 2448613>>
WindowFirstHour == 9
WindowLastHour == 23
HTTP_OK == 200

-----------------------------------------------------------------------------
(* Python helpers *)

\* dict.get(name, default) / os.environ.get(name, default)
Get(d, name, default) == IF name \in DOMAIN d THEN d[name] ELSE default

\* truth value of an Optional[str]
Truthy(v) == v # None /\ v # ""

RECURSIVE LStrip(_)
LStrip(s) == IF s # <<>> /\ Head(s) = " " THEN LStrip(Tail(s)) ELSE s

RECURSIVE RStrip(_)
RStrip(s) ==
    IF s # <<>> /\ s[Len(s)] = " " THEN RStrip(SubSeq(s, 1, Len(s) - 1)) ELSE s

\* str.strip()
strip(s) == RStrip(LStrip(s))

\* str.split(sep)
RECURSIVE split(_, _)
split(s, sep) ==
    IF \A k \in 1..Len(s) : s[k] # sep
    THEN <<s>>
    ELSE LET k == CHOOSE k \in 1..Len(s) :
                      s[k] = sep /\ \A j \in 1..(k - 1) : s[j] # sep
         IN  <<SubSeq(s, 1, k - 1)>> \o split(SubSeq(s, k + 1, Len(s)), sep)

DigitValue(c) == CASE c = "1" -> 1 [] c = "2" -> 2

\* int(s) raises ValueError unless s is a non-empty run of digits
ValueError(s) == s = <<>> \/ \E k \in 1..Len(s) : s[k] \notin Digits

RECURSIVE int(_)
int(s) ==
    IF Len(s) = 1
    THEN DigitValue(s[1])
    ELSE 10 * int(SubSeq(s, 1, Len(s) - 1)) + DigitValue(s[Len(s)])

NonBlank(x) == strip(x) # <<>>

-----------------------------------------------------------------------------
(* campaigns_from_env *)

\* variant: unparseable items are dropped and the parseable ones kept
campaigns_from_env_keep_parsed(env) ==
    LET raw   == Get(env, "CAMPAIGN_IDS", <<>>)
        items == SelectSeq(split(raw, ","), NonBlank)
        Parses(x) == ~ValueError(strip(x))
        good  == SelectSeq(items, Parses)
    IN  IF strip(raw) # <<>>
        THEN IF good = <<>> /\ items # <<>>
             THEN DEFAULT_CAMPAIGNS
             ELSE [k \in 1..Len(good) |-> int(strip(good[k]))]
        ELSE DEFAULT_CAMPAIGNS

campaigns_from_env(env) ==
    LET raw   == Get(env, "CAMPAIGN_IDS", <<>>)
        items == SelectSeq(split(raw, ","), NonBlank)
    IN  IF strip(raw) # <<>>
        THEN IF \E k \in 1..Len(items) : ValueError(strip(items[k]))
             THEN DEFAULT_CAMPAIGNS
             ELSE [k \in 1..Len(items) |-> int(strip(items[k]))]
        ELSE DEFAULT_CAMPAIGNS

-----------------------------------------------------------------------------
(* resolve_enabled *)

\* variant: the last hour of the window is left out
resolve_enabled_exclusive_end(mode, hour) ==
    IF mode \in {"on", "off"}
    THEN mode
    ELSE IF hour >= WindowFirstHour /\ hour < WindowLastHour THEN "on" ELSE "off"

resolve_enabled(mode, hour) ==
    IF mode \in {"on", "off"}
    THEN mode
    ELSE IF hour >= WindowFirstHour /\ hour <= WindowLastHour THEN "on" ELSE "off"

-----------------------------------------------------------------------------
(* get_access_token *)

\* what the token endpoint can answer: a network fault, or a status and a body
JsonPayloads ==
    {EmptyDict} \cup
    {[k \in {"access_token"} |-> v] : v \in {None, "", "tok-a", "tok-b"}}

TokenBodies ==
    {[json |-> "invalid", payload |-> EmptyDict],
     [json |-> "array", payload |-> EmptyDict]} \cup
    {[json |-> "object", payload |-> p] : p \in JsonPayloads}

TokenResponses ==
    {[fault |-> TRUE, status_code |-> 0,
      body |-> [json |-> "invalid", payload |-> EmptyDict]]} \cup
    {[fault |-> FALSE, status_code |-> s, body |-> b] :
        s \in {HTTP_OK, 401}, b \in TokenBodies}

Raise == [raised |-> TRUE, token |-> None]
Return(t) == [raised |-> FALSE, token |-> t]

\* variant: the static token is used only when no client credentials are set
UsesStaticTokenUnlessClient(env) ==
    /\ Truthy(Get(env, "ACCESS_TOKEN", None))
    /\ ~Truthy(Get(env, "CLIENT_ID", None))

\* lines 46-48: a static token wins
UsesStaticToken(env) == Truthy(Get(env, "ACCESS_TOKEN", None))

\* variant: `and` in place of `or`
MissingBothClientCredentials(env) ==
    /\ ~Truthy(Get(env, "CLIENT_ID", None))
    /\ ~Truthy(Get(env, "CLIENT_SECRET", None))

\* lines 51-56: both client credentials are required
MissingClientCredentials(env) ==
    \/ ~Truthy(Get(env, "CLIENT_ID", None))
    \/ ~Truthy(Get(env, "CLIENT_SECRET", None))

\* variant: the status code is not looked at
TokenFromResponseAnyStatus(resp) ==
    IF resp.fault THEN Raise
    ELSE IF resp.body.json # "object" THEN Raise
    ELSE LET t == Get(resp.body.payload, "access_token", None)
         IN  IF ~Truthy(t) THEN Raise ELSE Return(t)

\* variant: only a missing access_token is refused, an empty one is returned
TokenFromResponseAcceptsEmpty(resp) ==
    IF resp.fault THEN Raise
    ELSE IF resp.status_code # HTTP_OK THEN Raise
    ELSE IF resp.body.json # "object" THEN Raise
    ELSE LET t == Get(resp.body.payload, "access_token", None)
         IN  IF t = None THEN Raise ELSE Return(t)

\* lines 60-71: the outcome of the exchange, given the endpoint's answer
TokenFromResponse(resp) ==
    IF resp.fault THEN Raise
    ELSE IF resp.status_code # HTTP_OK THEN Raise
    ELSE IF resp.body.json # "object" THEN Raise
    ELSE LET t == Get(resp.body.payload, "access_token", None)
         IN  IF ~Truthy(t) THEN Raise ELSE Return(t)

\* whether get_access_token posts to the token endpoint
PostsTokenRequest(env) == ~UsesStaticToken(env) /\ ~MissingClientCredentials(env)

get_access_token(env, resp) ==
    IF UsesStaticToken(env) THEN Return(Get(env, "ACCESS_TOKEN", None))
    ELSE IF MissingClientCredentials(env) THEN Raise
    ELSE TokenFromResponse(resp)

TokenCall(env, resp) ==
    [url  |-> TOKEN_URL,
     auth |-> <<Get(env, "CLIENT_ID", None), Get(env, "CLIENT_SECRET", None)>>,
     resp |-> resp]

-----------------------------------------------------------------------------
(* the toggle loop *)

ToggleResponses ==
    {[fault |-> TRUE, status_code |-> 0]} \cup
    {[fault |-> FALSE, status_code |-> s] : s \in {HTTP_OK, 500}}

ToggleCall(tok, cid, state, resp) ==
    [url |-> API_URL, bearer |-> tok, id |-> cid, enabled |-> state, resp |-> resp]

\* line 99
DesiredOf(en) == IF en = "on" THEN "on" ELSE "off"

\* variant: a network fault ends the loop
NextCampaignStopOnFault(k, n, resp) == IF resp.fault THEN n + 1 ELSE k + 1

\* lines 101-110: the loop moves to the next id whatever the call's outcome
NextCampaign(k, n, resp) == k + 1

\* variant: a failed toggle makes the process exit 1
ExitOneOnToggleFailure(cs) ==
    IF \E k \in 1..Len(cs) :
          cs[k].url = API_URL /\ (cs[k].resp.fault \/ cs[k].resp.status_code # HTTP_OK)
    THEN 1
    ELSE 0

\* line 112: main returns normally after the loop
ExitAfterLoop(cs) == 0

-----------------------------------------------------------------------------
(* Initial states *)

CredNames == {"ACCESS_TOKEN", "CLIENT_ID", "CLIENT_SECRET"}

CredValue(name) ==
    CASE name = "ACCESS_TOKEN"  -> "static-token"
      [] name = "CLIENT_ID"     -> "client-id"
      [] name = "CLIENT_SECRET" -> "client-secret"

CredEnvs ==
    UNION {[D -> {0, 1}] : D \in SUBSET CredNames}

CredEnv(f) == [n \in DOMAIN f |-> IF f[n] = 0 THEN "" ELSE CredValue(n)]

CampaignEnvs ==
    {EmptyDict} \cup {[n \in {"CAMPAIGN_IDS"} |-> r] : r \in RawStrings}

Environments == {CredEnv(f) @@ c : f \in CredEnvs, c \in CampaignEnvs}

ArgSets == [enabled : Modes, dry_run : BOOLEAN]

Locals ==
    /\ campaigns = <<>>
    /\ enabled = None
    /\ token = None
    /\ desired = None
    /\ idx = 0
    /\ calls = <<>>
    /\ exit_code = NoExit

Init ==
    /\ pc = "start"
    /\ args \in ArgSets
    /\ environ \in Environments
    /\ clock = NoHour
    /\ Locals

-----------------------------------------------------------------------------
(* main *)

\* variant: the --dry-run flag is not honoured
MainSetupNoDryRun ==
    /\ pc = "start"
    /\ campaigns' = campaigns_from_env(environ)
    /\ pc' = "get_access_token"
    /\ UNCHANGED <<args, environ, clock, token, desired, idx, calls, exit_code>>
    /\ \E hour \in Hours :
          enabled' = resolve_enabled(args.enabled, hour)

\* lines 74-86
MainSetup ==
    /\ pc = "start"
    /\ campaigns' = campaigns_from_env(environ)
    /\ IF args.dry_run
       THEN pc' = "exited" /\ exit_code' = 0
       ELSE pc' = "get_access_token" /\ exit_code' = exit_code
    /\ UNCHANGED <<args, environ, clock, token, desired, idx, calls>>
    /\ \E hour \in Hours :
          enabled' = resolve_enabled(args.enabled, hour)

\* lines 88-99
Authenticate ==
    /\ pc = "get_access_token"
    /\ \E resp \in TokenResponses :
          LET r == get_access_token(environ, resp)
          IN  /\ calls' = IF PostsTokenRequest(environ)
                          THEN Append(calls, TokenCall(environ, resp))
                          ELSE calls
              /\ IF r.raised
                 THEN /\ pc' = "exited"
                      /\ exit_code' = 1
                      /\ UNCHANGED <<token, desired, idx>>
                 ELSE /\ pc' = "loop"
                      /\ token' = r.token
                      /\ desired' = DesiredOf(enabled)
                      /\ idx' = 1
                      /\ exit_code' = exit_code
    /\ UNCHANGED <<args, environ, clock, campaigns, enabled>>

\* lines 101-110
Toggle ==
    /\ pc = "loop"
    /\ idx <= Len(campaigns)
    /\ \E resp \in ToggleResponses :
          /\ calls' = Append(calls, ToggleCall(token, campaigns[idx], desired, resp))
          /\ idx' = NextCampaign(idx, Len(campaigns), resp)
    /\ UNCHANGED <<pc, args, environ, clock, campaigns, enabled, token, desired, exit_code>>

\* lines 112-115
MainDone ==
    /\ pc = "loop"
    /\ idx > Len(campaigns)
    /\ pc' = "exited"
    /\ exit_code' = ExitAfterLoop(calls)
    /\ UNCHANGED <<args, environ, clock, campaigns, enabled, token, desired, idx, calls>>

Next == MainSetup \/ Authenticate \/ Toggle \/ MainDone

Spec == Init /\ [][Next]_vars

-----------------------------------------------------------------------------
(* resolve_enabled on its own: every mode at every hour *)

InitEnabled ==
    /\ pc = "resolve_enabled"
    /\ args \in [enabled : Modes, dry_run : {FALSE}]
    /\ environ = EmptyDict
    /\ clock \in Hours
    /\ Locals

CallResolveEnabled ==
    /\ pc = "resolve_enabled"
    /\ enabled' = resolve_enabled(args.enabled, clock)
    /\ pc' = "returned"
    /\ UNCHANGED <<args, environ, clock, campaigns, token, desired, idx, calls, exit_code>>

NextEnabled == CallResolveEnabled

SpecEnabled == InitEnabled /\ [][NextEnabled]_vars

-----------------------------------------------------------------------------
(* Vocabulary of the properties *)

IsTokenCall(c) == c.url = TOKEN_URL
IsToggleCall(c) == c.url = API_URL

TokenCalls == SelectSeq(calls, IsTokenCall)
ToggleCalls == SelectSeq(calls, IsToggleCall)

\* the configuration, read off the environment
IsSet(name) == name \in DOMAIN environ /\ environ[name] # ""
StaticTokenConfigured == IsSet("ACCESS_TOKEN")
ClientCredentialsPresent == IsSet("CLIENT_ID") /\ IsSet("CLIENT_SECRET")

\* main's local `token` is bound only when get_access_token returned
CredentialResolved == token # None

HasAccessToken(r) ==
    /\ r.body.json = "object"
    /\ "access_token" \in DOMAIN r.body.payload
    /\ r.body.payload["access_token"] \notin {None, ""}

\* HTTP 200 with a non-empty access_token
GoodTokenResponse(r) == ~r.fault /\ r.status_code = 200 /\ HasAccessToken(r)

\* a non-200 status, 200 with a non-JSON body, 200 with a missing or empty access_token
BadTokenResponse(r) ==
    /\ ~r.fault
    /\ \/ r.status_code # 200
       \/ r.body.json = "invalid"
       \/ r.body.json = "object" /\ "access_token" \notin DOMAIN r.body.payload
       \/ r.body.json = "object" /\ Get(r.body.payload, "access_token", None) = ""

ToggleFailed(c) == c.resp.fault \/ c.resp.status_code # 200

-----------------------------------------------------------------------------
\* C1: in a non-preview run whose credential resolution succeeded, the toggle
\* POSTs issued so far are the first ids of the campaign list, in list order,
\* one per id, each with the one desired state computed at setup; when the run
\* has ended there are exactly as many as the list is long, whatever the
\* outcome of each call.
C1_OneToggleEachInOrder ==
    (~args.dry_run /\ CredentialResolved) =>
        /\ enabled \in {"on", "off"}
        /\ Len(ToggleCalls) <= Len(campaigns)
        /\ \A k \in 1..Len(ToggleCalls) :
              /\ ToggleCalls[k].id = campaigns[k]
              /\ ToggleCalls[k].enabled = enabled
        /\ pc = "exited" => Len(ToggleCalls) = Len(campaigns)

C1_Witness ==
    /\ pc = "exited"
    /\ ~args.dry_run
    /\ CredentialResolved
    /\ Len(campaigns) = 2
    /\ campaigns[1] # campaigns[2]
    /\ Len(ToggleCalls) = 2
    /\ ToggleCalls[1].resp.fault
    /\ ToggleCalls[2].resp.status_code = 200

\* C2: a preview run never performs a network call, whatever the mode, the
\* campaign list and the credentials, and it ends with exit code 0.
C2_DryRunNoCalls ==
    args.dry_run =>
        /\ calls = <<>>
        /\ pc \in {"start", "exited"}
        /\ pc = "exited" => exit_code = 0

C2_Witness ==
    /\ args.dry_run
    /\ pc = "exited"
    /\ exit_code = 0
    /\ args.enabled = "auto"
    /\ ~StaticTokenConfigured
    /\ ~ClientCredentialsPresent
    /\ Len(campaigns) = 2

\* C3: once the token endpoint has answered a non-200 status, 200 with a
\* non-JSON body, or 200 with a missing or empty access_token, the run has
\* ended with a non-zero exit code and no toggle call was or will be issued.
C3_AuthFailureAborts ==
    \A k \in 1..Len(calls) :
        (IsTokenCall(calls[k]) /\ BadTokenResponse(calls[k].resp)) =>
            /\ pc = "exited"
            /\ exit_code # 0
            /\ ToggleCalls = <<>>

C3_Witness ==
    /\ Len(calls) = 1
    /\ IsTokenCall(calls[1])
    /\ calls[1].resp.status_code = 401
    /\ HasAccessToken(calls[1].resp)
    /\ pc = "exited"
    /\ exit_code = 1
    /\ Len(campaigns) = 2

\* C4: a run whose resolved campaign list is empty ends with a non-zero exit
\* code and has made no network call.
C4_EmptyListIsConfigurationError ==
    (pc = "exited" /\ campaigns = <<>>) =>
        /\ exit_code # 0
        /\ calls = <<>>

\* C5: resolve_enabled returns the mode when it is on or off, and in auto mode
\* "on" exactly at the hours h with 9 <= h < 24.
C5_ResolveEnabled ==
    pc = "returned" =>
        enabled = CASE args.enabled = "on"  -> "on"
                    [] args.enabled = "off" -> "off"
                    [] OTHER -> IF 9 <= clock /\ clock < 24 THEN "on" ELSE "off"

C5_Witness ==
    /\ pc = "returned"
    /\ args.enabled = "auto"
    /\ clock = 23
    /\ enabled = "on"

\* C6: with a non-empty ACCESS_TOKEN no call goes to the token endpoint, the
\* resolved token is that value, and every toggle call carries it as bearer,
\* whether or not client credentials are set as well.
C6_StaticTokenWins ==
    StaticTokenConfigured =>
        /\ TokenCalls = <<>>
        /\ pc \in {"loop", "exited"} /\ ~args.dry_run => token = environ["ACCESS_TOKEN"]
        /\ \A k \in 1..Len(ToggleCalls) : ToggleCalls[k].bearer = environ["ACCESS_TOKEN"]

C6_Witness ==
    /\ StaticTokenConfigured
    /\ ClientCredentialsPresent
    /\ pc = "exited"
    /\ Len(ToggleCalls) = 2
    /\ ToggleCalls[2].bearer = "static-token"

\* C7: the exit code is 0 for a preview run and for a run whose credential
\* resolution succeeded, whatever the toggle calls returned; it is non-zero
\* only when client credentials are missing or the token exchange failed.
C7_ExitCodeFromSetupOnly ==
    pc = "exited" =>
        /\ (args.dry_run \/ CredentialResolved) => exit_code = 0
        /\ exit_code # 0 =>
              /\ ~args.dry_run
              /\ ~StaticTokenConfigured
              /\ \/ ~ClientCredentialsPresent /\ calls = <<>>
                 \/ /\ Len(calls) = 1
                    /\ IsTokenCall(calls[1])
                    /\ ~GoodTokenResponse(calls[1].resp)

C7_Witness ==
    /\ pc = "exited"
    /\ exit_code = 0
    /\ Len(ToggleCalls) = 2
    /\ ToggleCalls[1].resp.fault
    /\ ToggleCalls[2].resp.status_code = 500

\* C8: without a static token and with both client credentials, a non-preview
\* run never posts twice to the token endpoint; once past authentication it
\* has posted exactly once, as its first call; the exchange succeeded iff the
\* answer was HTTP 200 with a non-empty access_token, a failed exchange ends
\* the run, and after a success that access_token is the bearer of every
\* toggle call.
C8_OneTokenExchange ==
    (~StaticTokenConfigured /\ ClientCredentialsPresent /\ ~args.dry_run) =>
        /\ Len(TokenCalls) <= 1
        /\ pc \in {"start", "get_access_token"} => calls = <<>>
        /\ pc \in {"loop", "exited"} =>
              /\ Len(TokenCalls) = 1
              /\ IsTokenCall(calls[1])
              /\ CredentialResolved <=> GoodTokenResponse(calls[1].resp)
              /\ ~CredentialResolved => pc = "exited" /\ Len(calls) = 1
              /\ CredentialResolved =>
                    /\ token = calls[1].resp.body.payload["access_token"]
                    /\ \A k \in 1..Len(ToggleCalls) : ToggleCalls[k].bearer = token

C8_Witness ==
    /\ ~StaticTokenConfigured
    /\ ClientCredentialsPresent
    /\ ~args.dry_run
    /\ pc = "exited"
    /\ Len(calls) = 3
    /\ IsTokenCall(calls[1])
    /\ calls[1].resp.body.payload = [k \in {"access_token"} |-> "tok-b"]
    /\ calls[3].bearer = "tok-b"

\* C9: without a static token and with the client id or the client secret
\* absent or empty, a non-preview run performs no network call at all and
\* ends with a non-zero exit code.
C9_MissingClientCredentials ==
    (~StaticTokenConfigured /\ ~ClientCredentialsPresent /\ ~args.dry_run) =>
        /\ calls = <<>>
        /\ pc \in {"start", "get_access_token", "exited"}
        /\ pc = "exited" => exit_code # 0

C9_Witness ==
    /\ ~StaticTokenConfigured
    /\ IsSet("CLIENT_ID")
    /\ "CLIENT_SECRET" \in DOMAIN environ
    /\ environ["CLIENT_SECRET"] = ""
    /\ ~args.dry_run
    /\ pc = "exited"
    /\ exit_code = 1
    /\ calls = <<>>

\* C10: the campaign list is the built-in list when CAMPAIGN_IDS is unset or
\* blank; it is exactly the integers of the non-blank comma-separated items,
\* in input order, when each of them is an integer; and it is the whole
\* built-in list when one of them is not, in which case the run goes on (a
\* preview run still ends with exit code 0).
C10_AllOrNothing ==
    pc # "start" =>
        LET raw    == IF "CAMPAIGN_IDS" \in DOMAIN environ THEN environ["CAMPAIGN_IDS"] ELSE <<>>
            blank  == \A k \in 1..Len(raw) : raw[k] = " "
            items  == SelectSeq(split(raw, ","), NonBlank)
            IsInteger(x) == \A k \in 1..Len(strip(x)) : strip(x)[k] \in Digits
            allInt == \A k \in 1..Len(items) : IsInteger(items[k])
        IN  /\ blank => campaigns = DEFAULT_CAMPAIGNS
            /\ (~blank /\ allInt) =>
                  /\ Len(campaigns) = Len(items)
                  /\ \A k \in 1..Len(items) : campaigns[k] = int(strip(items[k]))
            /\ (~blank /\ ~allInt) =>
                  /\ campaigns = DEFAULT_CAMPAIGNS
                  /\ (args.dry_run /\ pc = "exited") => exit_code = 0

C10_Witness ==
    /\ pc = "exited"
    /\ args.dry_run
    /\ exit_code = 0
    /\ "CAMPAIGN_IDS" \in DOMAIN environ
    /\ environ["CAMPAIGN_IDS"] = <<"1", ",", "x">>
    /\ campaigns = DEFAULT_CAMPAIGNS

====
